---- MODULE Spec2Model ----
(***************************************************************************)
(* The three research-assistant programs of the repository                 *)
(*   DeepResearchAgent/DeepSearchAgent.py  ("DeepSearchAgent")             *)
(*   DeepResearchAgent/newAgent.py         ("newAgent")                    *)
(*   DeepResearchAgent/main.py             ("main")                        *)
(* and its one-shot program 01_math_agent/main.py ("math_agent") as one    *)
(* state machine: start-up, chat_loop, the agents of one turn and the      *)
(* search tool. Each agent takes the steps its instructions list, in the   *)
(* order they list them; the language model decides the content: the       *)
(* classification of the input, whether data is empty, which sources it    *)
(* holds, whether gaps are reported.                                       *)
(***************************************************************************)
EXTENDS Integers, Sequences, FiniteSets, TLC

VARIABLES
  variant,        \* which of the programs runs
  awaitable,      \* whether the object TavilyClient.search returns can be awaited
  pc,             \* "start" | "aborted" | "input" | "run" | "mathrun" | "exited" | "crashed"
  turns,          \* turns started so far
  out,            \* what was printed since the last input() returned
  session,        \* SQLiteSession: the turns stored, in order
  cleared,        \* session.clear_session() has run
  expired,        \* the 30 s wall-clock budget of the current turn has run out
  agent,          \* agent that holds the turn: "none" | "Query" | "Planning" | "Orchestrator" | "Math"
  mode,           \* QueryAgent's response mode: "none" | "GREETING" | "RESEARCH" | "AMBIGUOUS"
  stage,          \* Orchestrator: "idle" | "PLAN" | "GATHER" | "RATE" | "REFLECT" | "CITE" | "SYNTHESIZE" | "DONE"
  busy,           \* the tool call of `stage` is in flight
  trace,          \* the stages started in this turn, in order
  cycle,          \* research cycles (data_gather calls) started in this turn
  rawData,        \* result of the last data_gather call: "none" | "data" | "empty" | "error"
  gaps,           \* the last Reflection reported nonempty gaps
  searches,       \* search-tool calls issued by the DataGather invocation in flight
  tsPc,           \* search tool: "idle" | "try" | "sleep" | "returned" | "raised"
  attempt,        \* tavily_search's loop variable
  outcomes,       \* backend outcomes of the attempts of the search call in flight
  sleeps,         \* asyncio.sleep(1) calls of the search call in flight
  tsResult,       \* what the search call returned
  attemptsInTurn, \* backend attempts made in this turn
  failedCalls,    \* search calls of this turn's first cycle whose backend failed on every attempt
  geminiKey,      \* GEMINI_API_KEY is set in the environment
  tavilyKey,      \* TAVILY_API_KEY is set in the environment
  openaiKey,      \* OPENAI_API_KEY is set in the environment
  plan,           \* result of create_plan: "none" | "plan" | "error"
  sources,        \* kinds of the sources in the last data_gather result
  ratings,        \* last source_check output: "none" | "No sources available" | "rated"
  findings,       \* the last Reflection holds biases, insights or conflicts
  citeOut,        \* last format_citations output: "none" | "No citations available" | "list"
  cited,          \* sources of the citations produced in this turn, all cycles merged
  liveRuns        \* turns whose run can still write to the session

loopVars == <<pc, turns, out, session, cleared, expired>>
agentVars == <<agent, mode, stage, busy, trace, cycle, rawData, gaps, searches>>
toolVars == <<tsPc, attempt, outcomes, sleeps, tsResult, attemptsInTurn, failedCalls>>
envVars == <<geminiKey, tavilyKey, openaiKey>>
dataVars == <<plan, sources, ratings, findings, citeOut, cited>>
vars == <<variant, awaitable, loopVars, agentVars, toolVars, envVars, dataVars, liveRuns>>

----------------------------------------------------------------------------
\* Bounds of the model.

\* turns one run of chat_loop may start
MaxTurns == 2
\* cap on main.py's unbounded "repeat agent calls if gaps are identified"
MaxCycles == 3
\* cap on main.py's unbounded "continue until sufficient data is collected"
MaxSearches == 4

----------------------------------------------------------------------------
\* Program constants.

\* DeepSearchAgent.py:26  for attempt in range(3)
Attempts == 3
\* DeepSearchAgent.py:55-57 / newAgent.py:29  3 web searches per DataGather invocation
SearchLimit == 3
\* DeepSearchAgent.py:152 / newAgent.py:86  "perform 1 additional cycle"
ExtraCycles == 1
\* DeepSearchAgent.py:35  if attempt == 2
LastAttempt == 2

Variants == {"DeepSearchAgent", "newAgent", "main", "math_agent"}
BackendOutcomes == {"success", "exception", "timeout"}
Modes == {"GREETING", "RESEARCH", "AMBIGUOUS"}

\* A tool result: how it is serialized, whose data it holds, the keys of the
\* object and the fields of each entry of its 'results' list.
NoResult == [fmt |-> "none", data |-> "none", top |-> {}, fields |-> {}]

\* The source kinds a search returns, one per rating of SourceChecker's table.
SourceKinds == {"gov", "wiki", "blog"}

----------------------------------------------------------------------------
\* chat_loop: what differs between the three files.

\* DeepSearchAgent.py:187-194 wraps runner.run in asyncio.wait_for(..., timeout=30.0);
\* main.py:110-115 and newAgent.py:121-125 await runner.run directly.
HasTurnTimeout(v) == v = "DeepSearchAgent"

\* DeepSearchAgent.py:186,196-199 try/except around the turn; main.py and newAgent.py have none.
CatchesTurnErrors(v) == v = "DeepSearchAgent"

\* DeepSearchAgent.py:184 and newAgent.py:119 `await session.clear_session()`;
\* main.py:107 calls session.clear_session() without await: the coroutine object is
\* dropped and its body never runs.
ClearSessionRuns(v) == v # "main"

\* The session after the exit branch.
SessionAfterExit(v, s) == IF ClearSessionRuns(v) THEN <<>> ELSE s

\* print(f"Agent: {result.final_output}")
PrintFinal(o, text) == Append(o, text)

\* The fresh per-turn state runner.run starts from.
ResetTurn ==
  /\ agent' = "Query"
  /\ mode' = "none"
  /\ stage' = "idle"
  /\ busy' = FALSE
  /\ trace' = <<>>
  /\ cycle' = 0
  /\ rawData' = "none"
  /\ gaps' = FALSE
  /\ searches' = 0
  /\ tsPc' = "idle"
  /\ attempt' = 0
  /\ outcomes' = <<>>
  /\ sleeps' = 0
  /\ tsResult' = NoResult
  /\ attemptsInTurn' = 0
  /\ failedCalls' = 0
  /\ plan' = "none"
  /\ sources' = {}
  /\ ratings' = "none"
  /\ findings' = FALSE
  /\ citeOut' = "none"
  /\ cited' = {}

Init ==
  /\ variant \in Variants
  /\ awaitable \in (IF variant = "DeepSearchAgent" THEN BOOLEAN ELSE {FALSE})
  /\ geminiKey \in BOOLEAN
  /\ tavilyKey \in BOOLEAN
  /\ openaiKey \in (IF variant = "main" THEN BOOLEAN ELSE {TRUE})
  /\ pc = "start"
  /\ turns = 0
  /\ out = <<>>
  /\ session \in {<<>>, <<0>>}
  /\ cleared = FALSE
  /\ expired = FALSE
  /\ agent = "none"
  /\ mode = "none"
  /\ stage = "idle"
  /\ busy = FALSE
  /\ trace = <<>>
  /\ cycle = 0
  /\ rawData = "none"
  /\ gaps = FALSE
  /\ searches = 0
  /\ tsPc = "idle"
  /\ attempt = 0
  /\ outcomes = <<>>
  /\ sleeps = 0
  /\ tsResult = NoResult
  /\ attemptsInTurn = 0
  /\ failedCalls = 0
  /\ plan = "none"
  /\ sources = {}
  /\ ratings = "none"
  /\ findings = FALSE
  /\ citeOut = "none"
  /\ cited = {}
  /\ liveRuns = {}

\* The module-level statements before asyncio.run. main.py:11 assigns
\* os.getenv("OPENAI_API_KEY") to os.environ, which raises TypeError when the variable
\* is unset. DeepSearchAgent.py:15-16, newAgent.py:12-13 and main.py:16-17 raise
\* ValueError("API KEY MISSING") unless both keys are set. 01_math_agent/main.py:7-21
\* reads GEMINI_API_KEY and tests nothing.
StartupPasses(v, g, t, o) ==
  CASE v = "math_agent" -> TRUE
    [] v = "main" -> o /\ g /\ t
    [] OTHER -> g /\ t

\* 01_math_agent/main.py:11-14 AsyncOpenAI(api_key=API_KEY, ...): what the client does
\* with a key of None is the library's business, it may refuse or accept it.
ClientAccepts(g) == IF g THEN {TRUE} ELSE BOOLEAN

\* Start-up of the process, up to the first statement of chat_loop
\* (01_math_agent/main.py: up to Runner.run).
Startup ==
  /\ pc = "start"
  /\ IF ~StartupPasses(variant, geminiKey, tavilyKey, openaiKey)
       THEN /\ pc' = "aborted"
            /\ agent' = agent
       ELSE IF variant = "math_agent"
         THEN \E ok \in ClientAccepts(geminiKey) :
                /\ pc' = IF ok THEN "mathrun" ELSE "aborted"
                /\ agent' = IF ok THEN "Math" ELSE agent
         ELSE /\ pc' = "input"
              /\ agent' = agent
  /\ UNCHANGED <<variant, awaitable, envVars, dataVars, liveRuns, turns, out, session, cleared, expired,
                 mode, stage, busy, trace, cycle, rawData, gaps, searches, toolVars>>

\* 01_math_agent/main.py:24-27,37: Math_Agent calls its tool sum, which prints.
MathToolCall ==
  /\ pc = "mathrun"
  /\ out = <<>>
  /\ out' = Append(out, "ToolCalling")
  /\ UNCHANGED <<variant, awaitable, envVars, dataVars, liveRuns, pc, turns, session, cleared, expired,
                 agentVars, toolVars>>

\* 01_math_agent/main.py:40-46: Runner.run returns and the final output is printed, or
\* it raises (a rejected key among the reasons) and the process ends with a traceback.
MathFinish ==
  /\ pc = "mathrun"
  /\ \/ /\ geminiKey
        /\ out' = PrintFinal(out, "Final")
        /\ pc' = "exited"
     \/ /\ out' = out
        /\ pc' = "crashed"
  /\ UNCHANGED <<variant, awaitable, envVars, dataVars, liveRuns, turns, session, cleared, expired,
                 agentVars, toolVars>>

\* user_input.lower() == "exit": print("Goodbye!"), clear the session, break.
ReadExit ==
  /\ pc = "input"
  /\ pc' = "exited"
  /\ out' = <<"Goodbye">>
  /\ session' = SessionAfterExit(variant, session)
  /\ cleared' = ClearSessionRuns(variant)
  /\ UNCHANGED <<variant, awaitable, envVars, dataVars, liveRuns, turns, expired, agentVars, toolVars>>

\* Any other line: runner.run(starting_agent=QueryAgent, input=user_input, session=session).
ReadLine ==
  /\ pc = "input"
  /\ turns < MaxTurns
  /\ pc' = "run"
  /\ turns' = turns + 1
  /\ out' = <<>>
  /\ expired' = FALSE
  /\ ResetTurn
  /\ liveRuns' = liveRuns \cup {turns + 1}
  /\ UNCHANGED <<variant, awaitable, envVars, session, cleared>>

\* runner.run returns: the runner stores the turn in the session and chat_loop prints
\* the final output.
ReturnFinal(text) ==
  /\ out' = PrintFinal(out, text)
  /\ session' = Append(session, turns)
  /\ liveRuns' = liveRuns \ {turns}
  /\ pc' = "input"

\* Mutant of RunsAfterTimeout: the timeout returns to the loop and leaves the run alive.
RunsAfterTimeout_Detached(live, t) == live

\* DeepSearchAgent.py:187-194: asyncio.wait_for cancels the run on timeout and raises
\* TimeoutError only once the cancelled task has finished; nothing in the run catches
\* the cancellation (tavily_search's `except Exception` does not).
RunsAfterTimeout(live, t) == live \ {t}

\* asyncio.wait_for(..., timeout=30.0) expires: the run is cancelled where it stands,
\* the search call in flight goes with it, and the except asyncio.TimeoutError branch
\* prints the fixed message. Whether the cancelled run had already stored the input in
\* the session is the runner's business.
TurnTimeout ==
  /\ pc = "run"
  /\ HasTurnTimeout(variant)
  /\ expired' = TRUE
  /\ out' = Append(out, "Timeout")
  /\ pc' = "input"
  /\ session' \in {session, Append(session, turns)}
  /\ liveRuns' = RunsAfterTimeout(liveRuns, turns)
  /\ tsPc' = "idle"
  /\ attempt' = 0
  /\ outcomes' = <<>>
  /\ sleeps' = 0
  /\ tsResult' = NoResult
  /\ UNCHANGED <<variant, awaitable, envVars, dataVars, turns, cleared, agentVars, attemptsInTurn,
                 failedCalls>>

\* Without the wait_for wrapper the 30 s pass and nothing happens to the turn.
BudgetExceeded ==
  /\ pc = "run"
  /\ ~HasTurnTimeout(variant)
  /\ ~expired
  /\ expired' = TRUE
  /\ UNCHANGED <<variant, awaitable, envVars, dataVars, liveRuns, pc, turns, out, session, cleared, agentVars, toolVars>>

\* runner.run raises (a failed model call, MaxTurnsExceeded, ...): with the try/except
\* the generic message is printed and the loop goes on; without it the exception leaves
\* chat_loop and asyncio.run, and the process ends with a traceback.
TurnException ==
  /\ pc = "run"
  /\ tsPc = "idle"
  /\ IF CatchesTurnErrors(variant)
       THEN /\ out' = Append(out, "Error")
            /\ pc' = "input"
       ELSE /\ out' = out
            /\ pc' = "crashed"
  /\ session' \in {session, Append(session, turns)}
  /\ liveRuns' = liveRuns \ {turns}
  /\ UNCHANGED <<variant, awaitable, envVars, dataVars, turns, cleared, expired, agentVars, toolVars>>

----------------------------------------------------------------------------
\* QueryAgent.

\* Mutant of QueryDelegates: QueryAgent never hands off and answers every input itself.
QueryDelegates_Never(m) == FALSE

\* DeepSearchAgent.py:166 / newAgent.py:101: a research query is handed off.
QueryDelegates(m) == m = "RESEARCH"

\* DeepSearchAgent.py:165,167: the fixed greeting, one clarifying question. "Answer" is
\* the agent answering the query itself, which instruction 4 forbids.
QueryReply(m) ==
  CASE m = "GREETING" -> "Greeting"
    [] m = "AMBIGUOUS" -> "Clarify"
    [] OTHER -> "Answer"

\* handoffs=[OrchestratorAgent] (DeepSearchAgent.py:171, newAgent.py:106);
\* handoffs=[PlanningAgent] (main.py:92).
HandoffTarget(v) == IF v = "main" THEN "Planning" ELSE "Orchestrator"

\* One model call of QueryAgent: it classifies the input and either produces the final
\* output of the turn or hands the turn off. QueryAgent has no tools.
QueryStep ==
  /\ pc = "run"
  /\ agent = "Query"
  /\ \E m \in Modes :
       /\ mode' = m
       /\ IF QueryDelegates(m)
            THEN /\ agent' = HandoffTarget(variant)
                 /\ UNCHANGED <<pc, out, session, liveRuns>>
            ELSE /\ ReturnFinal(QueryReply(m))
                 /\ agent' = agent
  /\ UNCHANGED <<variant, awaitable, envVars, dataVars, turns, cleared, expired, stage, busy, trace, cycle,
                 rawData, gaps, searches, toolVars>>

\* main.py:84-90: PlanningAgent produces the plan itself and hands off to the Orchestrator.
PlanningHandoff ==
  /\ pc = "run"
  /\ agent = "Planning"
  /\ agent' = "Orchestrator"
  /\ trace' = Append(trace, "PLAN")
  /\ plan' = "plan"
  /\ UNCHANGED <<variant, awaitable, envVars, sources, ratings, findings, citeOut, cited, liveRuns, loopVars, mode, stage, busy, cycle, rawData, gaps,
                 searches, toolVars>>

----------------------------------------------------------------------------
\* OrchestratorAgent: the step its instructions name after stage s, given the last
\* data_gather result, the last gap report and the cycles started.

\* Mutant of NextStageDeep: the run stops after the citations and composes no response.
NextStageDeep_NoSynthesis(s, raw, g, c) ==
  CASE s = "idle" -> "PLAN"
    [] s = "PLAN" -> "GATHER"
    [] s = "GATHER" -> IF raw = "error" THEN "ABORT" ELSE "RATE"
    [] s = "RATE" -> "REFLECT"
    [] s = "REFLECT" -> "CITE"
    [] s = "CITE" -> IF g /\ c < 1 + ExtraCycles THEN "GATHER" ELSE "DONE"
    [] OTHER -> "DONE"

\* DeepSearchAgent.py:146-153
NextStageDeep(s, raw, g, c) ==
  CASE s = "idle" -> "PLAN"
    [] s = "PLAN" -> "GATHER"
    [] s = "GATHER" -> IF raw = "error" THEN "ABORT" ELSE "RATE"
    [] s = "RATE" -> "REFLECT"
    [] s = "REFLECT" -> "CITE"
    [] s = "CITE" -> IF g /\ c < 1 + ExtraCycles THEN "GATHER" ELSE "SYNTHESIZE"
    [] OTHER -> "DONE"

\* newAgent.py:82-87: no source_check tool, no failure rule.
NextStageNew(s, raw, g, c) ==
  CASE s = "idle" -> "PLAN"
    [] s = "PLAN" -> "GATHER"
    [] s = "GATHER" -> "REFLECT"
    [] s = "REFLECT" -> "CITE"
    [] s = "CITE" -> IF g /\ c < 1 + ExtraCycles THEN "GATHER" ELSE "SYNTHESIZE"
    [] OTHER -> "DONE"

\* main.py:77: "4) Repeat agent calls if gaps are identified", with no limit.
NextStageMain(s, raw, g, c) ==
  CASE s = "idle" -> "GATHER"
    [] s = "GATHER" -> "REFLECT"
    [] s = "REFLECT" -> "CITE"
    [] s = "CITE" -> IF g THEN "GATHER" ELSE "SYNTHESIZE"
    [] OTHER -> "DONE"

NextStage(v, s, raw, g, c) ==
  CASE v = "DeepSearchAgent" -> NextStageDeep(s, raw, g, c)
    [] v = "newAgent" -> NextStageNew(s, raw, g, c)
    [] OTHER -> NextStageMain(s, raw, g, c)

ToolStages == {"PLAN", "GATHER", "RATE", "REFLECT", "CITE"}

\* Mutant of ReflectGaps: Reflection has no fixed report for empty data.
ReflectGaps_NoSentinel(v, raw, c) ==
  CASE v = "main" -> IF c >= MaxCycles THEN {FALSE} ELSE BOOLEAN
    [] OTHER -> BOOLEAN

\* The gap reports Reflection may give. DeepSearchAgent.py:96: on empty data the fixed
\* report with gaps = ['No data available']. In main.py the model stops reporting
\* gaps at the cap on its cycles.
ReflectGaps(v, raw, c) ==
  CASE v = "DeepSearchAgent" -> IF raw = "empty" THEN {TRUE} ELSE BOOLEAN
    [] v = "main" -> IF c >= MaxCycles THEN {FALSE} ELSE BOOLEAN
    [] OTHER -> BOOLEAN

\* The Orchestrator calls its next tool.
OrchStart ==
  /\ pc = "run"
  /\ agent = "Orchestrator"
  /\ ~busy
  /\ LET n == NextStage(variant, stage, rawData, gaps, cycle) IN
       /\ n \in ToolStages
       /\ stage' = n
       /\ trace' = Append(trace, n)
       /\ cycle' = IF n = "GATHER" THEN cycle + 1 ELSE cycle
       /\ searches' = IF n = "GATHER" THEN 0 ELSE searches
  /\ busy' = TRUE
  /\ UNCHANGED <<variant, awaitable, envVars, dataVars, liveRuns, loopVars, agent, mode, rawData, gaps, toolVars>>

\* What create_plan gives the Orchestrator: the plan, or, when the PlanningAgent run
\* failed, the error text the tool wrapper makes of the failure
\* (DeepSearchAgent.py:137-140). The failed plan is followed in DeepSearchAgent.py only.
PlanResults(v) == IF v = "DeepSearchAgent" THEN {"plan", "error"} ELSE {"plan"}

\* DeepSearchAgent.py:71: High (.edu, .gov, major news), Medium (Wikipedia, industry
\* sites), Low (blogs, forums).
Rating(k) ==
  CASE k = "gov" -> "High"
    [] k = "wiki" -> "Medium"
    [] OTHER -> "Low"

\* Mutant of RateOutput: SourceChecker rates whatever it is given.
RateOutput_NoSentinel(raw) == "rated"

\* DeepSearchAgent.py:69-72: SourceChecker's output on the raw data.
RateOutput(raw) == IF raw = "data" THEN "rated" ELSE "No sources available"

\* Mutant of Citable: every source is cited.
Citable_All(v, srcs) == srcs

\* The sources CitationAgent cites. DeepSearchAgent.py:84 "for High and Medium sources
\* only"; newAgent.py:37 and main.py:44 "format citations in APA style from raw data".
Citable(v, srcs) ==
  IF v = "DeepSearchAgent"
    THEN {k \in srcs : Rating(k) \in {"High", "Medium"}}
    ELSE srcs

\* DeepSearchAgent.py:83: "If data or ratings are empty, return 'No citations
\* available'"; the other two CitationAgents have no such rule.
CiteOutput(v, raw, rt) ==
  IF v = "DeepSearchAgent" /\ (raw # "data" \/ rt # "rated")
    THEN "No citations available"
    ELSE "list"

\* Whether Reflection reports biases, insights or conflicts. DeepSearchAgent.py:96:
\* on empty data the three lists are empty.
ReflectFindings(v, raw) ==
  IF v = "DeepSearchAgent" /\ raw = "empty" THEN {FALSE} ELSE BOOLEAN

\* create_plan, source_check or format_citations returns.
ToolReturn ==
  /\ pc = "run"
  /\ busy
  /\ stage \in {"PLAN", "RATE", "CITE"}
  /\ busy' = FALSE
  /\ plan' \in (IF stage = "PLAN" THEN PlanResults(variant) ELSE {plan})
  /\ ratings' = IF stage = "RATE" THEN RateOutput(rawData) ELSE ratings
  /\ citeOut' = IF stage = "CITE" THEN CiteOutput(variant, rawData, ratings) ELSE citeOut
  /\ cited' = IF stage = "CITE" /\ citeOut' = "list"
               THEN cited \cup Citable(variant, sources) ELSE cited
  /\ UNCHANGED <<variant, awaitable, envVars, sources, findings, liveRuns, loopVars, agent, mode, stage,
                 trace, cycle, rawData, gaps, searches, toolVars>>

\* reflect_data returns its analysis.
ReflectReturn ==
  /\ pc = "run"
  /\ busy
  /\ stage = "REFLECT"
  /\ gaps' \in ReflectGaps(variant, rawData, cycle)
  /\ findings' \in ReflectFindings(variant, rawData)
  /\ busy' = FALSE
  /\ UNCHANGED <<variant, awaitable, envVars, plan, sources, ratings, citeOut, cited, liveRuns, loopVars, agent, mode, stage, trace, cycle, rawData,
                 searches, toolVars>>

\* DeepSearchAgent.py:148: data_gather returned an error: the fixed message is the
\* final output.
OrchAbort ==
  /\ pc = "run"
  /\ agent = "Orchestrator"
  /\ ~busy
  /\ NextStage(variant, stage, rawData, gaps, cycle) = "ABORT"
  /\ stage' = "DONE"
  /\ ReturnFinal("Unable")
  /\ UNCHANGED <<variant, awaitable, envVars, dataVars, turns, cleared, expired, agent, mode, busy, trace,
                 cycle, rawData, gaps, searches, toolVars>>

\* The Orchestrator starts composing the final response.
OrchSynthesize ==
  /\ pc = "run"
  /\ agent = "Orchestrator"
  /\ ~busy
  /\ NextStage(variant, stage, rawData, gaps, cycle) = "SYNTHESIZE"
  /\ stage' = "SYNTHESIZE"
  /\ trace' = Append(trace, "SYNTHESIZE")
  /\ UNCHANGED <<variant, awaitable, envVars, dataVars, liveRuns, loopVars, agent, mode, busy, cycle, rawData, gaps,
                 searches, toolVars>>

\* The response is the final output of the run.
OrchDeliver ==
  /\ pc = "run"
  /\ agent = "Orchestrator"
  /\ stage = "SYNTHESIZE"
  /\ stage' = "DONE"
  /\ ReturnFinal("Final")
  /\ UNCHANGED <<variant, awaitable, envVars, dataVars, turns, cleared, expired, agent, mode, busy, trace,
                 cycle, rawData, gaps, searches, toolVars>>

----------------------------------------------------------------------------
\* DataGatherAgent and the search tool.

\* Mutant of GatherLimit: no DataGather stops at 3 searches.
GatherLimit_NoLimit(v) == MaxSearches

\* Searches one DataGather invocation may issue. DeepSearchAgent.py:55-57 and
\* newAgent.py:29: 3; main.py:38 "continue until sufficient ... data is collected".
GatherLimit(v) == IF v = "main" THEN MaxSearches ELSE SearchLimit

\* When DataGather returns. DeepSearchAgent.py:55 "exactly 3 web searches";
\* newAgent.py:29 "up to 3"; main.py:38 when it finds the data sufficient.
GatherMayReturn(v, n) == IF v = "DeepSearchAgent" THEN n = SearchLimit ELSE n >= 1

\* main.py:27 print("TOOL CALLING....") is the first statement of Search;
\* the tavily_search functions print nothing.
SearchPrints(v, o) == IF v = "main" THEN Append(o, "ToolCalling") ELSE o

\* DataGather calls its search tool.
CallSearch ==
  /\ pc = "run"
  /\ busy
  /\ stage = "GATHER"
  /\ tsPc = "idle"
  /\ searches < GatherLimit(variant)
  /\ searches' = searches + 1
  /\ tsPc' = "try"
  /\ attempt' = 0
  /\ outcomes' = <<>>
  /\ sleeps' = 0
  /\ tsResult' = NoResult
  /\ out' = SearchPrints(variant, out)
  /\ UNCHANGED <<variant, awaitable, envVars, dataVars, liveRuns, pc, turns, session, cleared, expired, agent, mode,
                 stage, busy, trace, cycle, rawData, gaps, attemptsInTurn, failedCalls>>

\* DeepSearchAgent.py:24,28-32. tavily_client.search(query, max_results=5) is called
\* first and what it returns is handed to asyncio.wait_for. TavilyClient is the
\* library's blocking client (its awaitable counterpart is AsyncTavilyClient): search
\* returns the response dict, wait_for is given a dict and raises TypeError, which the
\* except clause takes like any backend failure. `aw` covers a client whose search
\* returns an awaitable: then a success gives the response, an exception is raised by
\* the await and a slow backend ends in wait_for's TimeoutError.
AwaitSearch(aw, o) == IF o = "success" /\ aw THEN "value" ELSE "except"

\* DeepSearchAgent.py:33 and 37-46: json.dumps of the response or of mocked_data;
\* line 48: the plain string after the loop.
JsonOf(d, payload) ==
  [fmt |-> "json", data |-> d, top |-> payload.top, fields |-> payload.fields]
SearchFailedText == [fmt |-> "text", data |-> "Search failed", top |-> {}, fields |-> {}]

\* Mutant of MockedData: the fallback entries carry other field names.
MockedData_OtherFields == [top |-> {"results"}, fields |-> {"link", "text"}]

\* DeepSearchAgent.py:37-45: mocked_data, one key "results", entries of "url" and "content".
MockedData == [top |-> {"results"}, fields |-> {"url", "content"}]

\* The search backend's response: search(query, max_results) -> {results: [{url, content}]}.
BackendResponse == [top |-> {"results"}, fields |-> {"url", "content"}]

\* Mutant of AfterFailure: every failure is followed by the sleep.
AfterFailure_AlwaysSleeps(a) == "sleep"

\* DeepSearchAgent.py:34-47: what the except clause does in iteration a.
AfterFailure(a) == IF a = LastAttempt THEN "fallback" ELSE "sleep"

\* s holds no successful backend outcome.
AllFailed(s) == \A i \in 1..Len(s) : s[i] # "success"

\* One iteration of `for attempt in range(3)` up to its return or its sleep
\* (DeepSearchAgent.py:26-47), or the statement after the loop (line 48).
TavilySearchAttempt ==
  /\ pc = "run"
  /\ variant = "DeepSearchAgent"
  /\ tsPc = "try"
  /\ IF attempt >= Attempts
       THEN /\ tsResult' = SearchFailedText
            /\ tsPc' = "returned"
            /\ UNCHANGED <<outcomes, attemptsInTurn, failedCalls>>
       ELSE \E o \in BackendOutcomes :
              /\ outcomes' = Append(outcomes, o)
              /\ attemptsInTurn' = attemptsInTurn + 1
              /\ IF AwaitSearch(awaitable, o) = "value"
                   THEN /\ tsResult' = JsonOf("backend", BackendResponse)
                        /\ tsPc' = "returned"
                        /\ failedCalls' = failedCalls
                   ELSE IF AfterFailure(attempt) = "fallback"
                     THEN /\ tsResult' = JsonOf("mocked", MockedData)
                          /\ tsPc' = "returned"
                          /\ failedCalls' = IF cycle = 1 /\ AllFailed(outcomes')
                                              THEN failedCalls + 1 ELSE failedCalls
                     ELSE /\ tsResult' = tsResult
                          /\ tsPc' = "sleep"
                          /\ failedCalls' = failedCalls
  /\ UNCHANGED <<variant, awaitable, envVars, dataVars, liveRuns, loopVars, agentVars, attempt, sleeps>>

\* DeepSearchAgent.py:47 await asyncio.sleep(1), then the next iteration.
SearchSleep ==
  /\ pc = "run"
  /\ tsPc = "sleep"
  /\ sleeps' = sleeps + 1
  /\ attempt' = attempt + 1
  /\ tsPc' = "try"
  /\ UNCHANGED <<variant, awaitable, envVars, dataVars, liveRuns, loopVars, agentVars, outcomes, tsResult,
                 attemptsInTurn, failedCalls>>

\* newAgent.py:20-24 tavily_search and main.py:26-30 Search: one blocking call, no
\* try: str(response) on success, the backend's exception otherwise.
SearchOnce ==
  /\ pc = "run"
  /\ variant # "DeepSearchAgent"
  /\ tsPc = "try"
  /\ \E o \in BackendOutcomes :
       /\ outcomes' = Append(outcomes, o)
       /\ IF o = "success"
            THEN /\ tsResult' = [fmt |-> "repr", data |-> "backend",
                                  top |-> BackendResponse.top, fields |-> BackendResponse.fields]
                 /\ tsPc' = "returned"
            ELSE /\ tsResult' = NoResult
                 /\ tsPc' = "raised"
  /\ attemptsInTurn' = attemptsInTurn + 1
  /\ UNCHANGED <<variant, awaitable, envVars, dataVars, liveRuns, loopVars, agentVars, attempt, sleeps, failedCalls>>

\* The tool's result (or the error text the tool wrapper makes of its exception) goes
\* back to the DataGather model; the call's frame is gone.
GatherCollect ==
  /\ pc = "run"
  /\ tsPc \in {"returned", "raised"}
  /\ tsPc' = "idle"
  /\ attempt' = 0
  /\ outcomes' = <<>>
  /\ sleeps' = 0
  /\ tsResult' = NoResult
  /\ UNCHANGED <<variant, awaitable, envVars, dataVars, liveRuns, loopVars, agentVars, attemptsInTurn, failedCalls>>

\* The sources of a data_gather result: none unless it holds data; with data, a
\* High and a Low source or a single Medium one.
GatheredSources(raw) == IF raw = "data" THEN {{"gov", "blog"}, {"wiki"}} ELSE {{}}

\* data_gather returns to the Orchestrator: the collected data, nothing, or an error
\* when the DataGather run itself failed.
GatherReturn ==
  /\ pc = "run"
  /\ busy
  /\ stage = "GATHER"
  /\ tsPc = "idle"
  /\ GatherMayReturn(variant, searches)
  /\ rawData' \in {"data", "empty", "error"}
  /\ sources' \in GatheredSources(rawData')
  /\ busy' = FALSE
  /\ UNCHANGED <<variant, awaitable, envVars, plan, ratings, findings, citeOut, cited, liveRuns, loopVars, agent, mode, stage, trace, cycle, gaps,
                 searches, toolVars>>

----------------------------------------------------------------------------

\* The steps runner.run takes by itself, from QueryAgent's model call to the final output.
RunStep ==
  \/ QueryStep
  \/ PlanningHandoff
  \/ OrchStart
  \/ ToolReturn
  \/ ReflectReturn
  \/ OrchAbort
  \/ OrchSynthesize
  \/ OrchDeliver
  \/ CallSearch
  \/ TavilySearchAttempt
  \/ SearchSleep
  \/ SearchOnce
  \/ GatherCollect
  \/ GatherReturn

Next ==
  \/ Startup
  \/ MathToolCall
  \/ MathFinish
  \/ ReadExit
  \/ ReadLine
  \/ TurnTimeout
  \/ BudgetExceeded
  \/ TurnException
  \/ RunStep

Spec == Init /\ [][Next]_vars

----------------------------------------------------------------------------
\* Helpers of the properties.

Elems(s) == {s[i] : i \in 1..Len(s)}

----------------------------------------------------------------------------
\* C1. One tavily_search call (DeepSearchAgent.py and newAgent.py) makes at most 3
\* backend attempts, never raises to its caller, returns the backend's serialized
\* response of the first successful attempt, and returns the fallback data exactly when
\* all 3 attempts failed.
C1_SearchContract ==
  variant \in {"DeepSearchAgent", "newAgent"} =>
    /\ Len(outcomes) <= Attempts
    /\ tsPc # "raised"
    /\ tsPc = "returned" =>
         /\ Len(outcomes) >= 1
         /\ AllFailed(SubSeq(outcomes, 1, Len(outcomes) - 1))
         /\ outcomes[Len(outcomes)] = "success" => tsResult.data = "backend"
         /\ tsResult.data = "mocked" <=> (Len(outcomes) = Attempts /\ AllFailed(outcomes))

\* C2. DeepSearchAgent.py: when the backend failed on every attempt of every search of
\* the first cycle, RATE, REFLECT, CITE and SYNTHESIZE are never reached and a turn
\* that ends with a final output ends with the fixed "Unable to gather data" message.
C2_AbortOnSearchFailure ==
  (variant = "DeepSearchAgent" /\ failedCalls = SearchLimit) =>
    /\ Elems(trace) \cap {"RATE", "REFLECT", "CITE", "SYNTHESIZE"} = {}
    /\ (pc = "input" /\ stage = "DONE") => out = <<"Unable">>

\* C3. DeepSearchAgent.py and main.py: at most 2 research cycles per turn; the
\* Orchestrator goes on to the synthesis after one cycle only when that cycle's
\* Reflection reported no gaps.
C3_AtMostTwoCycles ==
  variant \in {"DeepSearchAgent", "main"} =>
    /\ cycle <= 1 + ExtraCycles
    /\ (stage = "SYNTHESIZE" /\ cycle = 1) => ~gaps

\* C4 as stated. DeepSearchAgent.py: every Orchestrator run ends in DONE with exactly
\* one output, the FinalResponse or the short-circuit message.
C4_EveryRunEndsInDone ==
  (variant = "DeepSearchAgent" /\ agent = "Orchestrator" /\ pc = "input") =>
    /\ stage = "DONE"
    /\ out \in {<<"Final">>, <<"Unable">>}

\* Stage starts one Orchestrator run of DeepSearchAgent.py can make.
TraceBound == 1 + 4 * (1 + ExtraCycles) + 1

\* C4 as amended. DeepSearchAgent.py: an Orchestrator run that is cut short neither by
\* the turn timeout nor by an exception ends in DONE and yields exactly one output, the
\* FinalResponse or the short-circuit message, never both and never none: while it runs
\* it has printed nothing, can always take its next step and has started a bounded
\* number of stages; DONE comes with exactly one of the two outputs; and a run that
\* ended elsewhere was ended by the timeout or an exception.
C4_ExactlyOneOutput ==
  (variant = "DeepSearchAgent" /\ agent = "Orchestrator") =>
    /\ pc = "run" => (out = <<>> /\ stage # "DONE" /\ ENABLED RunStep)
    /\ Len(trace) <= TraceBound
    /\ stage = "DONE" => pc # "run"
    /\ (pc = "input" /\ stage = "DONE") => out \in {<<"Final">>, <<"Unable">>}
    /\ (pc = "input" /\ stage # "DONE") => out \in {<<"Timeout">>, <<"Error">>}

\* C4 witness: a second-cycle run delivered its FinalResponse.
C4_Witness ==
  /\ variant = "DeepSearchAgent"
  /\ pc = "input"
  /\ stage = "DONE"
  /\ cycle = 2
  /\ out = <<"Final">>

\* The stage that follows s in a research cycle, as the claim has it.
ClaimedSuccessors(s) ==
  CASE s = "PLAN" -> {"GATHER"}
    [] s = "GATHER" -> {"RATE"}
    [] s = "RATE" -> {"REFLECT"}
    [] s = "REFLECT" -> {"CITE"}
    [] s = "CITE" -> {"GATHER", "SYNTHESIZE"}
    [] OTHER -> {}

\* C5. DeepSearchAgent.py and newAgent.py: the stages of a cycle start in the order
\* Plan, Gather, Rate, Reflect, Cite with none skipped, and a stage starts only when
\* the stage before it and every search call it issued have completed.
C5_StageOrder ==
  variant \in {"DeepSearchAgent", "newAgent"} =>
    /\ \A i \in 1..(Len(trace) - 1) : trace[i + 1] \in ClaimedSuccessors(trace[i])
    /\ trace # <<>> => trace[1] = "PLAN"
    /\ busy => (trace # <<>> /\ stage = trace[Len(trace)])
    /\ tsPc # "idle" => (busy /\ stage = "GATHER")

\* C6. DeepSearchAgent.py and main.py: in a research turn nothing but the FinalResponse
\* or the fixed failure message is written to the user (the messages of the turn
\* boundary, timeout and error, and the exit's goodbye are no output of the turn).
C6_OnlyFinalOutput ==
  (variant \in {"DeepSearchAgent", "main"} /\ mode = "RESEARCH") =>
    Elems(out) \subseteq {"Final", "Unable", "Timeout", "Error", "Goodbye"}

\* C7. All three chat_loops: an exception raised while a turn runs ends in a message
\* to the user and the loop reading the next input, the session not cleared.
C7_FailureStaysInTurn ==
  [][TurnException =>
       /\ pc' = "input"
       /\ out' = Append(out, "Error")
       /\ cleared' = cleared]_vars

\* C8. DeepSearchAgent.py and main.py: on "exit" chat_loop clears the session and ends
\* the loop without running a turn: no turn is started, the runner's state is left
\* alone and nothing is appended to the session.
C8_ExitClearsSession ==
  [][ReadExit =>
       /\ pc' = "exited"
       /\ cleared'
       /\ session' = <<>>
       /\ turns' = turns
       /\ UNCHANGED <<agentVars, toolVars>>]_vars

\* C9. DeepSearchAgent.py and newAgent.py: once the 30 s budget of a turn has run out
\* the turn is abandoned, exactly the fixed timeout message is shown and the loop is
\* back at its input with the session not cleared.
C9_TimeoutAbandonsTurn ==
  (variant \in {"DeepSearchAgent", "newAgent"} /\ expired) =>
    /\ pc \in {"input", "exited"}
    /\ pc = "input" => (out = <<"Timeout">> /\ ~cleared)

\* C10. DeepSearchAgent.py: per turn QueryAgent takes exactly one of three response
\* modes. GREETING: the fixed reply, no handoff, no tool call. AMBIGUOUS: exactly one
\* clarifying question, no handoff. RESEARCH: the turn is handed to the Orchestrator
\* and nothing QueryAgent wrote is shown.
C10_ResponseModes ==
  (variant = "DeepSearchAgent" /\ pc \in {"input", "run"}) =>
    /\ mode = "GREETING" =>
         (agent = "Query" /\ out = <<"Greeting">> /\ trace = <<>> /\ attemptsInTurn = 0)
    /\ mode = "AMBIGUOUS" =>
         (agent = "Query" /\ out = <<"Clarify">> /\ trace = <<>> /\ attemptsInTurn = 0)
    /\ mode = "RESEARCH" =>
         (agent = "Orchestrator" /\ Elems(out) \cap {"Greeting", "Clarify", "Answer"} = {})
    /\ (mode = "none" /\ turns > 0) => Elems(out) \subseteq {"Timeout", "Error"}
    /\ agent = "Orchestrator" => mode = "RESEARCH"

\* C10 witness: a research turn was delegated and the Orchestrator has gathered data.
C10_Witness ==
  /\ variant = "DeepSearchAgent"
  /\ pc = "run"
  /\ mode = "RESEARCH"
  /\ agent = "Orchestrator"
  /\ stage = "RATE"
  /\ attemptsInTurn > 0

\* C11. DeepSearchAgent.py and main.py: one DataGather invocation issues at most 3
\* search-tool calls.
C11_GatherSearchLimit ==
  variant \in {"DeepSearchAgent", "main"} => searches <= SearchLimit

\* A key the program needs is not set: the model's key for all four programs, the
\* search backend's key for the three that search.
KeyMissing == ~geminiKey \/ (variant # "math_agent" /\ ~tavilyKey)

\* C12. All four programs: with a required API key missing the process aborts during
\* start-up: no prompt is read, no turn is processed, no agent runs, nothing is printed
\* and the session is not touched.
C12_AbortOnMissingKey ==
  KeyMissing =>
    /\ pc \in {"start", "aborted"}
    /\ turns = 0
    /\ agent = "none"
    /\ out = <<>>
    /\ ~cleared

\* C13. DeepSearchAgent.py and newAgent.py: every citation CitationAgent produced in
\* the turn, the second cycle's merged with the first's, belongs to a source rated High
\* or Medium.
C13_CitesOnlyHighMedium ==
  variant \in {"DeepSearchAgent", "newAgent"} =>
    \A k \in cited : Rating(k) \in {"High", "Medium"}

ParsesAs(r) ==
  IF r.fmt = "json" /\ "results" \in r.top /\ {"url", "content"} \subseteq r.fields
    THEN "results" ELSE "other"

\* C15. DeepSearchAgent.py: the fallback result has the structure of a successful
\* result, a JSON object with a 'results' list of entries with 'url' and 'content', and
\* a consumer parses both on the same branch.
C15_FallbackShape ==
  (variant = "DeepSearchAgent" /\ tsPc = "returned") =>
    /\ tsResult.data = "mocked" =>
         /\ tsResult.fmt = JsonOf("backend", BackendResponse).fmt
         /\ tsResult.top = BackendResponse.top
         /\ tsResult.fields = BackendResponse.fields
         /\ ParsesAs(tsResult) = ParsesAs(JsonOf("backend", BackendResponse))
    /\ tsResult.data \in {"mocked", "backend"} => ParsesAs(tsResult) = "results"

\* C15 witness: a search call of the second cycle returned the fallback.
C15_Witness ==
  /\ variant = "DeepSearchAgent"
  /\ tsPc = "returned"
  /\ cycle = 2
  /\ tsResult.data = "mocked"
  /\ tsResult.fields = {"url", "content"}

\* Attempt i of the search call in flight ended in the except clause.
AttemptFailed(i) == AwaitSearch(awaitable, outcomes[i]) = "except"

\* The backend failed the request of attempt i.
BackendFailed(i) == outcomes[i] # "success"

\* C16. DeepSearchAgent.py: tavily_search sleeps once after each failed attempt but the
\* third, before the next attempt; it sleeps neither after the third failure nor after
\* a success, and makes no attempt after a success.
C16_Backoff ==
  variant = "DeepSearchAgent" =>
    /\ tsPc = "try" =>
         /\ sleeps = Len(outcomes)
         /\ \A i \in 1..Len(outcomes) : BackendFailed(i)
    /\ tsPc = "sleep" =>
         /\ sleeps = Len(outcomes) - 1
         /\ Len(outcomes) < Attempts
         /\ BackendFailed(Len(outcomes))
    /\ tsPc = "returned" =>
         /\ sleeps = Len(outcomes) - 1
         /\ \A i \in 1..(Len(outcomes) - 1) : BackendFailed(i)
         /\ BackendFailed(Len(outcomes)) => Len(outcomes) = Attempts
         /\ ~ENABLED (TavilySearchAttempt \/ SearchSleep)

\* C17. DeepSearchAgent.py and main.py: the session has at most one writer: no run is
\* alive while chat_loop waits for input, so the run of a turn starts only when the run
\* before it, timed out or not, can no longer append, and the stored turns are in input
\* order.
C17_SingleWriter ==
  variant \in {"DeepSearchAgent", "main"} =>
    /\ Cardinality(liveRuns) <= 1
    /\ pc = "input" => liveRuns = {}
    /\ pc = "run" => liveRuns = {turns}
    /\ \A i \in 1..(Len(session) - 1) : session[i] < session[i + 1]

\* C17 witness: the second turn runs after a first turn that timed out having stored
\* its input.
C17_Witness ==
  /\ variant = "DeepSearchAgent"
  /\ pc = "run"
  /\ turns = 2
  /\ liveRuns = {2}
  /\ stage = "idle"
  /\ session # <<>>
  /\ session[Len(session)] = 1

\* C18. DeepSearchAgent.py: when create_plan failed, no later stage runs and no
\* FinalResponse is produced.
C18_PlanFailurePropagates ==
  (variant = "DeepSearchAgent" /\ plan = "error") =>
    /\ Elems(trace) \cap {"GATHER", "RATE", "REFLECT", "CITE", "SYNTHESIZE"} = {}
    /\ "Final" \notin Elems(out)

\* C19. DeepSearchAgent.py: tavily_search never returns 'Search failed: Network
\* unreachable': the loop is left by a return in or before its third iteration and the
\* statement after it is never reached.
C19_SearchFailedUnreachable ==
  variant = "DeepSearchAgent" =>
    /\ tsResult # SearchFailedText
    /\ attempt <= LastAttempt
    /\ tsPc = "sleep" => attempt < LastAttempt

\* C19 witness: the third attempt failed and the call returned from inside the loop.
C19_Witness ==
  /\ variant = "DeepSearchAgent"
  /\ tsPc = "returned"
  /\ attempt = LastAttempt
  /\ AttemptFailed(Attempts)
  /\ tsResult.fmt = "json"

Starts(s) == Cardinality({i \in 1..Len(trace) : trace[i] = s})

\* Backend attempts one turn can make: 3 per call, 3 calls per DataGather, 2 cycles.
MaxAttemptsPerTurn == Attempts * SearchLimit * (1 + ExtraCycles)

\* C21. DeepSearchAgent.py: the backend attempts of one turn are bounded: at most 3 per
\* search call, 3 search calls per DataGather invocation and 2 cycles, so at most 18;
\* nothing but tavily_search repeats anything: create_plan and the synthesis start at
\* most once, every other stage at most once per cycle.
C21_BoundedAttempts ==
  variant = "DeepSearchAgent" =>
    /\ Len(outcomes) <= Attempts
    /\ searches <= SearchLimit
    /\ cycle <= 1 + ExtraCycles
    /\ attemptsInTurn <= MaxAttemptsPerTurn
    /\ cycle >= 1 => attemptsInTurn <= Attempts * (SearchLimit * (cycle - 1) + searches)
    /\ cycle = 0 => attemptsInTurn = 0
    /\ Starts("PLAN") <= 1
    /\ Starts("SYNTHESIZE") <= 1
    /\ \A st \in {"GATHER", "RATE", "REFLECT", "CITE"} : Starts(st) <= cycle
    /\ Starts("GATHER") = cycle

\* C21 witness: a turn of two cycles in which every search call used its three attempts.
C21_Witness ==
  /\ variant = "DeepSearchAgent"
  /\ cycle = 1 + ExtraCycles
  /\ searches = SearchLimit
  /\ attemptsInTurn = MaxAttemptsPerTurn
  /\ tsPc = "returned"

====
